---- MODULE Spec2Model ----
(***************************************************************************)
(* Model of build_shanghai_graph.py: station table, line definitions,      *)
(* the directed graph of metro and walking edges, and main()'s ordering of *)
(* build and output steps.                                                 *)
(*                                                                         *)
(* Units: distances are whole metres; times are hundredths of a second, so *)
(* that 3600/40000 s/m (= 9) and 3600/4800 s/m (= 75) are exact; speeds    *)
(* are tenths of a km/h (40.0 -> 400, 4.8 -> 48); longitudes and latitudes *)
(* are hundredths of a degree.                                             *)
(***************************************************************************)
EXTENDS Integers, Sequences, FiniteSets, TLC

VARIABLES
    pc,            \* position of the running function
    error,         \* name of the exception that ended the run, "" if none
    stations_gdf,  \* rows of the raw station feature table
    row_i,         \* number of rows of the current loop already consumed
    records,       \* build_station_table: records
    seen,          \* build_station_table: seen (osm_id -> station_id)
    stations,      \* the station table (build_lines: station_df)
    lines,         \* line_id -> [name, stations]
    origin,        \* history: line_id -> the route row that wrote the line
    G_nodes,       \* G.nodes: node -> attribute dictionary
    G_edges,       \* G.edges (nx.DiGraph): <<u, v>> -> attribute dictionary
    tracks_gdf,    \* the track geometries
    todo,          \* work not yet done by the current loop of build_graph
    last,          \* locals of the loop iteration that ran last
    far,           \* history: the station pairs the prefilter skipped
    files          \* output file name -> content written

vars == <<pc, error, stations_gdf, row_i, records, seen, stations,
          lines, origin, G_nodes, G_edges, tracks_gdf, todo, last, far, files>>

(***************************************************************************)
(* Bounds and input domains                                                *)
(***************************************************************************)
MaxFeatures == 3
MaxRoutes == 2
MaxMembers == 3
MaxStations == 2
MaxLines == 2
MaxLineLen == 2

Empty == [x \in {} |-> x]

SeqsUpTo(S, n) == UNION {[1..k -> S] : k \in 0..n}

\* Python's dict.update / keyword update of an attribute dictionary.
Update(old, new) == new @@ old

(***************************************************************************)
(* 1. Assumptions and helpers                                              *)
(***************************************************************************)
ASSUMPTIONS ==
    [metro_cruise_speed_kmh |-> 400,
     avg_walk_speed_kmh |-> 48,
     dwell_time_s |-> 30 * 100,
     minimum_platform_access_time_s |-> 120 * 100,
     minimum_transfer_overhead_s |-> 180 * 100,
     terminal_turnback_penalty_s |-> 300 * 100]

\* 3600.0 / (speed_kmh * 1000.0) seconds per metre, here in hundredths of a
\* second per metre for a speed in tenths of a km/h.
seconds_per_meter(speed_kmh) == (3600 * 100 * 10) \div (speed_kmh * 1000)

(***************************************************************************)
(* 2. Station table                                                        *)
(***************************************************************************)
OsmIds == {101, 102, 103}

\* Marks a tag or column the row does not have (row.get falls to its default).
Missing == "<missing>"

FeatureNames == {"Xujiahui", Missing}

Geometries ==
    { [geom_type |-> "Point", x |-> 12147, y |-> 3119],
      [geom_type |-> "Polygon",
       centroid |-> [geom_type |-> "Point", x |-> 12148, y |-> 3120]] }

StationRows == [osmid : OsmIds, name : FeatureNames, geometry : Geometries]

\* As station_row, without the test of seen.
station_row_no_dedup(acc, row) ==
    LET geom == IF row.geometry.geom_type # "Point"
                THEN row.geometry.centroid ELSE row.geometry
        station_id == Cardinality(DOMAIN acc.seen)
    IN  [records |-> Append(acc.records,
                        [station_id |-> station_id,
                         osm_id |-> row.osmid,
                         name |-> IF row.name = Missing
                                  THEN "station_" \o ToString(station_id)
                                  ELSE row.name,
                         lat |-> geom.y,
                         lon |-> geom.x]),
         seen |-> (row.osmid :> station_id) @@ acc.seen]

\* One iteration of the loop of build_station_table over a row; acc holds the
\* function's locals records and seen.
station_row(acc, row) ==
    IF row.osmid \in DOMAIN acc.seen
    THEN acc
    ELSE LET geom == IF row.geometry.geom_type # "Point"
                     THEN row.geometry.centroid ELSE row.geometry
             station_id == Cardinality(DOMAIN acc.seen)
         IN  [records |-> Append(acc.records,
                             [station_id |-> station_id,
                              osm_id |-> row.osmid,
                              name |-> IF row.name = Missing
                                       THEN "station_" \o ToString(station_id)
                                       ELSE row.name,
                              lat |-> geom.y,
                              lon |-> geom.x]),
              seen |-> (row.osmid :> station_id) @@ acc.seen]

RECURSIVE station_rows(_, _)
station_rows(acc, gdf) ==
    IF gdf = <<>> THEN acc
    ELSE station_rows(station_row(acc, Head(gdf)), Tail(gdf))

\* The whole function: the table has one row per record, row index k-1 at
\* position k.
build_station_table(gdf) ==
    station_rows([records |-> <<>>, seen |-> Empty], gdf).records

\* Values of the variables a specification does not use.
Idle(vs) ==
    /\ ("error" \in vs) => error = ""
    /\ ("stations_gdf" \in vs) => stations_gdf = <<>>
    /\ ("row_i" \in vs) => row_i = 0
    /\ ("records" \in vs) => records = <<>>
    /\ ("seen" \in vs) => seen = Empty
    /\ ("stations" \in vs) => stations = <<>>
    /\ ("lines" \in vs) => lines = Empty
    /\ ("origin" \in vs) => origin = Empty
    /\ ("G_nodes" \in vs) => G_nodes = Empty
    /\ ("G_edges" \in vs) => G_edges = Empty
    /\ ("tracks_gdf" \in vs) => tracks_gdf = <<>>
    /\ ("todo" \in vs) => todo = <<>>
    /\ ("last" \in vs) => last = Empty
    /\ ("far" \in vs) => far = {}
    /\ ("files" \in vs) => files = Empty

\* build_station_table run row by row on any table of at most MaxFeatures rows.
InitStations ==
    /\ pc = "station_table"
    /\ stations_gdf \in SeqsUpTo(StationRows, MaxFeatures)
    /\ Idle({"error", "row_i", "records", "seen", "stations",
             "lines", "origin", "G_nodes", "G_edges", "tracks_gdf", "todo",
             "last", "far", "files"})

StationRow ==
    /\ pc = "station_table"
    /\ row_i < Len(stations_gdf)
    /\ LET acc == station_row([records |-> records, seen |-> seen],
                              stations_gdf[row_i + 1])
       IN  /\ records' = acc.records
           /\ seen' = acc.seen
    /\ row_i' = row_i + 1
    /\ UNCHANGED <<pc, error, stations_gdf, stations, lines,
                   origin, G_nodes, G_edges, tracks_gdf, todo, last, far,
                   files>>

StationTableReturn ==
    /\ pc = "station_table"
    /\ row_i = Len(stations_gdf)
    /\ stations' = records
    /\ pc' = "station_table_returned"
    /\ UNCHANGED <<error, stations_gdf, row_i, records, seen,
                   lines, origin, G_nodes, G_edges, tracks_gdf, todo, last,
                   far, files>>

NextStations == StationRow \/ StationTableReturn

SpecStations == InitStations /\ [][NextStations]_vars

\* ---- C6 ----------------------------------------------------------------
FirstOccurrence(o) ==
    CHOOSE k \in 1..Len(stations_gdf) :
        /\ stations_gdf[k].osmid = o
        /\ \A j \in 1..(k - 1) : stations_gdf[j].osmid # o

DistinctBefore(k) == {stations_gdf[j].osmid : j \in 1..(k - 1)}

\* C6: build_station_table yields exactly one Station per distinct source id,
\* taken from the first row with that id, and the station_id of a source id is
\* the number of distinct source ids seen before that row, so the ids are
\* exactly 0..N-1.
C6_OneStationPerSourceId ==
    pc = "station_table_returned" =>
        LET ids == {stations_gdf[k].osmid : k \in 1..Len(stations_gdf)}
            N == Cardinality(ids)
        IN  /\ Len(stations) = N
            /\ {stations[k].station_id : k \in 1..Len(stations)} = 0..(N - 1)
            /\ \A o \in ids :
                 \E k \in 1..Len(stations) :
                    LET first == stations_gdf[FirstOccurrence(o)]
                        pt == IF first.geometry.geom_type = "Point"
                              THEN first.geometry ELSE first.geometry.centroid
                    IN  /\ stations[k].osm_id = o
                        /\ stations[k].station_id =
                              Cardinality(DistinctBefore(FirstOccurrence(o)))
                        /\ first.name # Missing => stations[k].name = first.name
                        /\ stations[k].lat = pt.y
                        /\ stations[k].lon = pt.x

\* A table where a source id repeats with other tags and geometry, and a new
\* source id follows the repeat.
C6_Witness ==
    /\ pc = "station_table_returned"
    /\ Len(stations_gdf) = 3
    /\ stations_gdf[1].osmid = stations_gdf[2].osmid
    /\ stations_gdf[1].name # stations_gdf[2].name
    /\ stations_gdf[1].geometry # stations_gdf[2].geometry
    /\ stations_gdf[3].osmid # stations_gdf[1].osmid
    /\ Len(stations) = 2

(***************************************************************************)
(* 3. Line definitions                                                     *)
(***************************************************************************)
MemberRefs == {101, 102, 103}

\* A members value: a list of member dictionaries, or something that is no list.
MemberValues ==
    {[is_list |-> TRUE, items |-> ms] :
        ms \in SeqsUpTo([ref : MemberRefs], MaxMembers)}
    \cup {[is_list |-> FALSE, items |-> <<>>]}

\* Route rows whose ref and name, where present, are both "1".
RouteRows == [ref : {"1", Missing}, name : {"1", Missing},
              members : MemberValues]

\* row.get(key): None (falsy) when the row has no such key.
Truthy(v) == v # Missing /\ v # ""

\* dict(zip(station_df.osm_id, station_df.station_id))
osm_to_station_of(station_df) ==
    [o \in {station_df[k].osm_id : k \in 1..Len(station_df)} |->
        station_df[CHOOSE k \in 1..Len(station_df) :
                      /\ station_df[k].osm_id = o
                      /\ \A j \in (k + 1)..Len(station_df) :
                            station_df[j].osm_id # o].station_id]

\* The loop over members: seq grows by the station of each member whose ref
\* is in the lookup.
RECURSIVE resolve_members(_, _, _)
resolve_members(seq, members, osm_to_station) ==
    IF members = <<>> THEN seq
    ELSE LET ref == Head(members).ref
         IN  resolve_members(
                 IF ref \in DOMAIN osm_to_station
                 THEN Append(seq, osm_to_station[ref]) ELSE seq,
                 Tail(members), osm_to_station)

\* As lines_row, keeping a sequence of a single station.
lines_row_keep_short(acc, row, osm_to_station) ==
    LET line_id == IF Truthy(row.ref) THEN row.ref ELSE row.name
    IN  IF ~Truthy(line_id) THEN acc
        ELSE IF ~row.members.is_list THEN acc
        ELSE LET seq == resolve_members(<<>>, row.members.items, osm_to_station)
             IN  IF Len(seq) >= 1
                 THEN [lines |->
                          (line_id :> [name |-> IF row.name = Missing
                                                THEN line_id ELSE row.name,
                                       stations |-> seq]) @@ acc.lines,
                       origin |-> (line_id :> row) @@ acc.origin]
                 ELSE acc

\* One iteration of the loop of build_lines over a route row; acc holds lines
\* and the history of which row wrote each line.
lines_row(acc, row, osm_to_station) ==
    LET line_id == IF Truthy(row.ref) THEN row.ref ELSE row.name
    IN  IF ~Truthy(line_id) THEN acc
        ELSE IF ~row.members.is_list THEN acc
        ELSE LET seq == resolve_members(<<>>, row.members.items, osm_to_station)
             IN  IF Len(seq) >= 2
                 THEN [lines |->
                          (line_id :> [name |-> IF row.name = Missing
                                                THEN line_id ELSE row.name,
                                       stations |-> seq]) @@ acc.lines,
                       origin |-> (line_id :> row) @@ acc.origin]
                 ELSE acc

\* Station tables of the line specification: built from rows of two source
\* ids in any order and repetition (103 is never a station).
PlainRow(o) == [osmid |-> o, name |-> "Xujiahui",
                geometry |-> [geom_type |-> "Point", x |-> 12147, y |-> 3119]]

InitLines ==
    /\ pc = "build_lines"
    /\ \E gdf \in SeqsUpTo({PlainRow(101), PlainRow(102)}, 2) :
          stations = build_station_table(gdf)
    /\ Idle({"error", "stations_gdf", "row_i", "records", "seen",
             "lines", "origin", "G_nodes", "G_edges", "tracks_gdf", "todo",
             "last", "far", "files"})

\* Line 105: an empty station table is a DataFrame without columns, and
\* station_df.osm_id raises AttributeError.
LinesStart ==
    /\ pc = "build_lines"
    /\ IF stations = <<>>
       THEN pc' = "raised" /\ error' = "AttributeError"
       ELSE pc' = "lines_loop" /\ error' = error
    /\ lines' = Empty
    /\ origin' = Empty
    /\ row_i' = 0
    /\ UNCHANGED <<stations_gdf, records, seen, stations,
                   G_nodes, G_edges, tracks_gdf, todo, last, far, files>>

\* The iteration over the next row the route table holds; the table has at
\* most max rows.
LinesRow(row, max) ==
    /\ pc = "lines_loop"
    /\ row_i < max
    /\ LET acc == lines_row([lines |-> lines, origin |-> origin], row,
                            osm_to_station_of(stations))
       IN  /\ lines' = acc.lines
           /\ origin' = acc.origin
    /\ row_i' = row_i + 1
    /\ UNCHANGED <<pc, error, stations_gdf, records, seen,
                   stations, G_nodes, G_edges, tracks_gdf, todo, last, far,
                   files>>

LinesReturn ==
    /\ pc = "lines_loop"
    /\ pc' = "lines_returned"
    /\ UNCHANGED <<error, stations_gdf, row_i, records, seen,
                   stations, lines, origin, G_nodes, G_edges, tracks_gdf,
                   todo, last, far, files>>

AnyRouteRow == \E row \in RouteRows : LinesRow(row, MaxRoutes)

NextLines == LinesStart \/ AnyRouteRow \/ LinesReturn

SpecLines == InitLines /\ [][NextLines]_vars

\* ---- C7 ----------------------------------------------------------------
StationIdOfSource(o) ==
    (CHOOSE r \in {stations[k] : k \in 1..Len(stations)} : r.osm_id = o).station_id

IsStationSource(o) == \E k \in 1..Len(stations) : stations[k].osm_id = o

IsResolvable(m) == IsStationSource(m.ref)

\* C7: every line record's stations sequence is its route's membership list
\* with unresolvable members removed and the others replaced by their
\* station_id, order and repetitions kept, and it has at least 2 entries.
C7_LineIsResolvedMembership ==
    \A lid \in DOMAIN lines :
        LET kept == SelectSeq(origin[lid].members.items, IsResolvable)
        IN  /\ Len(lines[lid].stations) = Len(kept)
            /\ \A k \in 1..Len(kept) :
                  lines[lid].stations[k] = StationIdOfSource(kept[k].ref)
            /\ Len(lines[lid].stations) >= 2

\* After two routes were read, a line whose route listed an unresolvable
\* member between two stations, in the opposite order of their station_ids.
C7_Witness ==
    /\ pc = "lines_returned"
    /\ \E lid \in DOMAIN lines :
          /\ Len(origin[lid].members.items) = 3
          /\ origin[lid].members.items[2].ref = 103
          /\ lines[lid].stations = <<1, 0>>
    /\ row_i = 2
    /\ Cardinality(DOMAIN lines) = 1

(***************************************************************************)
(* 4. Metro distance via track geometry                                    *)
(*                                                                         *)
(* A track is a straight west-east segment from point a to point b         *)
(* (a.y = b.y, a.x <= b.x). The projection to EPSG:32651 is taken as the   *)
(* affine map that approximates it around Shanghai: 0.01 degree of         *)
(* longitude is 950 m, 0.01 degree of latitude 1107 m, the central         *)
(* meridian 123 E has easting 500000.                                      *)
(***************************************************************************)
Point(x, y) == [geom_type |-> "Point", x |-> x, y |-> y]

to_crs_32651(pt) == Point(500000 + (pt.x - 12300) * 950, pt.y * 1107)

build_track_index(tracks) ==
    [k \in 1..Len(tracks) |->
        [a |-> to_crs_32651(tracks[k].a), b |-> to_crs_32651(tracks[k].b)]]

\* nearest_points(track, pt)[0]: the point of the track nearest to pt.
nearest_on_track(track, pt) ==
    Point(IF pt.x < track.a.x THEN track.a.x
          ELSE IF pt.x > track.b.x THEN track.b.x ELSE pt.x,
          track.a.y)

\* The square of geometry.distance(pt); the order of the distances is the
\* order of their squares.
distance_sq(track, pt) ==
    LET n == nearest_on_track(track, pt)
    IN  (pt.x - n.x) * (pt.x - n.x) + (pt.y - n.y) * (pt.y - n.y)

Abs(n) == IF n < 0 THEN -n ELSE n

metro_distance(station_a, station_b, tracks) ==
    LET pt_a == to_crs_32651(Point(station_a.lon, station_a.lat))
        pt_b == to_crs_32651(Point(station_b.lon, station_b.lat))
        first == CHOOSE k \in 1..Len(tracks) :
                    /\ \A j \in 1..Len(tracks) :
                          distance_sq(tracks[k], pt_a) <= distance_sq(tracks[j], pt_a)
                    /\ \A j \in 1..(k - 1) :
                          distance_sq(tracks[j], pt_a) > distance_sq(tracks[k], pt_a)
        track == tracks[first]
        proj_a == nearest_on_track(track, pt_a)
        proj_b == nearest_on_track(track, pt_b)
    IN  \* both projections lie on the west-east segment
        Abs(proj_a.x - proj_b.x)

(***************************************************************************)
(* 5. Walking admissibility rule                                           *)
(***************************************************************************)
\* As walking_is_admissible, with <= for <.
walking_is_admissible_or_equal(dist_walk_m, euclid_m) ==
    LET walk_time == dist_walk_m * seconds_per_meter(ASSUMPTIONS.avg_walk_speed_kmh)
        optimistic_metro_time ==
            euclid_m * seconds_per_meter(ASSUMPTIONS.metro_cruise_speed_kmh)
        min_overhead == ASSUMPTIONS.dwell_time_s
                        + ASSUMPTIONS.minimum_platform_access_time_s
    IN  walk_time <= optimistic_metro_time + min_overhead

walking_is_admissible(dist_walk_m, euclid_m) ==
    LET walk_time == dist_walk_m * seconds_per_meter(ASSUMPTIONS.avg_walk_speed_kmh)
        optimistic_metro_time ==
            euclid_m * seconds_per_meter(ASSUMPTIONS.metro_cruise_speed_kmh)
        min_overhead == ASSUMPTIONS.dwell_time_s
                        + ASSUMPTIONS.minimum_platform_access_time_s
    IN  walk_time < optimistic_metro_time + min_overhead

(***************************************************************************)
(* 6. Build full graph                                                     *)
(***************************************************************************)
\* nx.DiGraph: one attribute dictionary per node and per ordered node pair;
\* adding what exists updates its dictionary.
add_node(G, n, attrs) ==
    [nodes |-> (n :> Update(IF n \in DOMAIN G.nodes THEN G.nodes[n] ELSE Empty,
                            attrs)) @@ G.nodes,
     edges |-> G.edges]

add_edge(G, u, v, attrs) ==
    [nodes |-> G.nodes @@ (u :> Empty) @@ (v :> Empty),
     edges |-> (<<u, v>> :>
                  Update(IF <<u, v>> \in DOMAIN G.edges
                         THEN G.edges[<<u, v>>] ELSE Empty, attrs)) @@ G.edges]

\* What s.name, s.lat and s.lon give for the row s that iterrows yields at
\* position k: name is the Series' own name, the row's index label k-1
\* (written as text), not the value of the column "name".
node_attrs(table, k) ==
    [name |-> ToString(k - 1), lat |-> table[k].lat, lon |-> table[k].lon]

\* stations.loc[stations.station_id == a].iloc[0]
station_by_id(table, a) ==
    table[CHOOSE k \in 1..Len(table) :
             /\ table[k].station_id = a
             /\ \A j \in 1..(k - 1) : table[j].station_id # a]

\* As metro_edges, without the second add_edge.
metro_edges_one_way(G, lid, a, b, table, tracks) ==
    LET dist == metro_distance(station_by_id(table, a), station_by_id(table, b),
                               tracks)
        time_s == dist * seconds_per_meter(ASSUMPTIONS.metro_cruise_speed_kmh)
                  + ASSUMPTIONS.dwell_time_s
        attrs == [mode |-> "metro", line |-> lid, distance_m |-> dist,
                  time_s |-> time_s]
    IN  add_edge(G, a, b, attrs)

\* One iteration of the metro loop for the pair (a, b) of line lid.
metro_edges(G, lid, a, b, table, tracks) ==
    LET dist == metro_distance(station_by_id(table, a), station_by_id(table, b),
                               tracks)
        time_s == dist * seconds_per_meter(ASSUMPTIONS.metro_cruise_speed_kmh)
                  + ASSUMPTIONS.dwell_time_s
        attrs == [mode |-> "metro", line |-> lid, distance_m |-> dist,
                  time_s |-> time_s]
    IN  add_edge(add_edge(G, a, b, attrs), b, a, attrs)

\* if euclid_m > 1500: continue
WalkPrefilterMeters == 1500

\* As beyond_prefilter, with >= for >.
beyond_prefilter_or_at(euclid_m) == euclid_m >= WalkPrefilterMeters

beyond_prefilter(euclid_m) == euclid_m > WalkPrefilterMeters

\* The rest of one iteration of the walking loop, for a pair within the
\* prefilter whose routed distance is d_walk.
walk_edges(G, s1, s2, d_walk, euclid_m) ==
    IF walking_is_admissible(d_walk, euclid_m)
    THEN LET t == d_walk * seconds_per_meter(ASSUMPTIONS.avg_walk_speed_kmh)
             attrs == [mode |-> "walk", distance_m |-> d_walk, time_s |-> t]
         IN  add_edge(add_edge(G, s1, s2, attrs), s2, s1, attrs)
    ELSE G

\* zip(seq, seq[1:]) of every line, in the order the lines are iterated.
RECURSIVE segments_of(_, _)
segments_of(order, ls) ==
    IF order = <<>> THEN <<>>
    ELSE LET lid == Head(order)
             seq == ls[lid].stations
         IN  [k \in 1..(Len(seq) - 1) |->
                 [line |-> lid, a |-> seq[k], b |-> seq[k + 1]]]
             \o segments_of(Tail(order), ls)

\* The pairs (i, j) of row labels with i < j, in the order of the two loops.
RECURSIVE pairs_from(_, _, _)
pairs_from(i, j, n) ==
    IF i >= n THEN <<>>
    ELSE IF j >= n THEN pairs_from(i + 1, i + 2, n)
    ELSE <<[i |-> i, j |-> j]>> \o pairs_from(i, j + 1, n)

Orders(S) ==
    {f \in [1..Cardinality(S) -> S] :
        \A x, y \in 1..Cardinality(S) : x # y => f[x] # f[y]}

\* What the geodata services answer for a station pair: the great-circle
\* distance, and the shortest path length in the pedestrian network, if any.
EuclidValues == {500, 1500, 1501}

RoutedValues ==
    {[found |-> TRUE, length |-> d] : d \in {100, 260, 650}}
    \cup {[found |-> FALSE, length |-> 0]}

GraphStart ==
    /\ pc = "build_graph"
    /\ G_nodes' = Empty
    /\ G_edges' = Empty
    /\ row_i' = 0
    /\ pc' = "nodes_loop"
    /\ UNCHANGED <<error, stations_gdf, records, seen, stations, lines, origin,
                   tracks_gdf, todo, last, far, files>>

AddNode ==
    /\ pc = "nodes_loop"
    /\ row_i < Len(stations)
    /\ LET G == add_node([nodes |-> G_nodes, edges |-> G_edges],
                         stations[row_i + 1].station_id,
                         node_attrs(stations, row_i + 1))
       IN  G_nodes' = G.nodes /\ G_edges' = G.edges
    /\ row_i' = row_i + 1
    /\ UNCHANGED <<pc, error, stations_gdf, records, seen, stations, lines,
                   origin, tracks_gdf, todo, last, far, files>>

\* lines.items() iterates in insertion order; every order of the line ids is
\* the insertion order of some route table that yields these lines.
MetroStart ==
    /\ pc = "nodes_loop"
    /\ row_i = Len(stations)
    /\ \E order \in Orders(DOMAIN lines) : todo' = segments_of(order, lines)
    /\ pc' = "metro_loop"
    /\ UNCHANGED <<error, stations_gdf, row_i, records, seen, stations, lines,
                   origin, G_nodes, G_edges, tracks_gdf, last, far, files>>

MetroEdge ==
    /\ pc = "metro_loop"
    /\ todo # <<>>
    /\ LET seg == Head(todo)
           G == metro_edges([nodes |-> G_nodes, edges |-> G_edges],
                            seg.line, seg.a, seg.b, stations, tracks_gdf)
       IN  G_nodes' = G.nodes /\ G_edges' = G.edges
    /\ todo' = Tail(todo)
    /\ UNCHANGED <<pc, error, stations_gdf, row_i, records, seen, stations,
                   lines, origin, tracks_gdf, last, far, files>>

WalkStart ==
    /\ pc = "metro_loop"
    /\ todo = <<>>
    /\ todo' = pairs_from(0, 1, Len(stations))
    /\ pc' = "walk_loop"
    /\ UNCHANGED <<error, stations_gdf, row_i, records, seen, stations, lines,
                   origin, G_nodes, G_edges, tracks_gdf, last, far, files>>

\* One iteration of the walking loop. nx.shortest_path_length raises
\* NetworkXNoPath when the anchors are not connected; nothing catches it.
WalkPair ==
    /\ pc = "walk_loop"
    /\ todo # <<>>
    /\ \E euclid_m \in EuclidValues, routed \in RoutedValues :
          LET s1 == stations[Head(todo).i + 1]
              s2 == stations[Head(todo).j + 1]
              G == walk_edges([nodes |-> G_nodes, edges |-> G_edges],
                              s1.station_id, s2.station_id,
                              routed.length, euclid_m)
          IN  /\ last' = [s1 |-> s1.station_id, s2 |-> s2.station_id,
                          euclid_m |-> euclid_m, routed |-> routed]
              /\ far' = IF beyond_prefilter(euclid_m)
                        THEN far \cup {<<s1.station_id, s2.station_id>>}
                        ELSE far
              /\ IF beyond_prefilter(euclid_m)
                 THEN UNCHANGED <<pc, error, G_nodes, G_edges>>
                 ELSE IF ~routed.found
                 THEN /\ pc' = "raised"
                      /\ error' = "NetworkXNoPath"
                      /\ UNCHANGED <<G_nodes, G_edges>>
                 ELSE /\ G_nodes' = G.nodes
                      /\ G_edges' = G.edges
                      /\ UNCHANGED <<pc, error>>
    /\ todo' = IF pc' = "raised" THEN todo ELSE Tail(todo)
    /\ UNCHANGED <<stations_gdf, row_i, records, seen, stations, lines, origin,
                   tracks_gdf, files>>

\* return G: the locals of the loops are gone.
GraphReturn ==
    /\ pc = "walk_loop"
    /\ todo = <<>>
    /\ last' = Empty
    /\ pc' = "graph_returned"
    /\ UNCHANGED <<error, stations_gdf, row_i, records, seen, stations, lines,
                   origin, G_nodes, G_edges, tracks_gdf, todo, far, files>>

(***************************************************************************)
(* Main                                                                    *)
(***************************************************************************)
\* The station features of the pipeline runs: the first n of a fixed list of
\* features with distinct source ids, alternately named points and unnamed
\* areas.
PipelineRow(k) ==
    [osmid |-> 100 + k,
     name |-> IF k % 2 = 1 THEN "Xujiahui" ELSE Missing,
     geometry |-> IF k % 2 = 1
                  THEN Point(12140 + k, 3120)
                  ELSE [geom_type |-> "Polygon",
                        centroid |-> Point(12140 + k, 3121)]]

PipelineStationTables ==
    {[k \in 1..n |-> PipelineRow(k)] : n \in 0..MaxStations}

PipelineRouteRows ==
    [ref : {"1", "2"}, name : {Missing},
     members : {[is_list |-> TRUE, items |-> ms] :
                   ms \in SeqsUpTo([ref : {100 + k : k \in 1..MaxStations}],
                                   MaxLineLen)}]

\* Two tracks: a short one through the first station, a long one to the north.
TrackLayouts ==
    { << [a |-> Point(12140, 3120), b |-> Point(12141, 3120)],
         [a |-> Point(12141, 3121), b |-> Point(12144, 3121)] >> }

GraphFile == "output/shanghai_graph.gpickle"
StationsFile == "output/stations.csv"
LinesFile == "output/lines.json"

Init ==
    /\ pc = "main"
    /\ Idle({"error", "stations_gdf", "row_i", "records", "seen", "stations",
             "lines", "origin", "G_nodes", "G_edges", "tracks_gdf", "todo",
             "last", "far", "files"})

EnsureDir ==
    /\ pc = "main"
    /\ files' = ("output" :> "directory") @@ files
    /\ pc' = "extract"
    /\ UNCHANGED <<error, stations_gdf, row_i, records, seen, stations, lines,
                   origin, G_nodes, G_edges, tracks_gdf, todo, last, far>>

\* extract_osm_data returns the feature tables; build_station_table starts.
Extract ==
    /\ pc = "extract"
    /\ stations_gdf' \in PipelineStationTables
    /\ tracks_gdf' \in TrackLayouts
    /\ row_i' = 0
    /\ records' = <<>>
    /\ seen' = Empty
    /\ pc' = "station_table"
    /\ UNCHANGED <<error, stations, lines, origin, G_nodes, G_edges, todo,
                   last, far, files>>

\* The acquisition raises (network or parse failure).
ExtractFails ==
    /\ pc = "extract"
    /\ pc' = "raised"
    /\ error' = "acquisition"
    /\ UNCHANGED <<stations_gdf, row_i, records, seen, stations, lines, origin,
                   G_nodes, G_edges, tracks_gdf, todo, last, far, files>>

MainBuildLines ==
    /\ pc = "station_table_returned"
    /\ pc' = "build_lines"
    /\ UNCHANGED <<error, stations_gdf, row_i, records, seen, stations, lines,
                   origin, G_nodes, G_edges, tracks_gdf, todo, last, far,
                   files>>

PipelineRouteRow == \E row \in PipelineRouteRows : LinesRow(row, MaxLines)

TrackIndex ==
    /\ pc = "lines_returned"
    /\ tracks_gdf' = build_track_index(tracks_gdf)
    /\ pc' = "build_graph"
    /\ UNCHANGED <<error, stations_gdf, row_i, records, seen, stations, lines,
                   origin, G_nodes, G_edges, todo, last, far, files>>

\* The coordinate transformation raises.
TrackIndexFails ==
    /\ pc = "lines_returned"
    /\ pc' = "raised"
    /\ error' = "to_crs"
    /\ UNCHANGED <<stations_gdf, row_i, records, seen, stations, lines, origin,
                   G_nodes, G_edges, tracks_gdf, todo, last, far, files>>

\* As WriteGraph, but also saving the graph while the walking loop runs.
WriteGraph_checkpoint ==
    /\ pc \in {"walk_loop", "graph_returned"}
    /\ GraphFile \notin DOMAIN files
    /\ files' = (GraphFile :> [nodes |-> G_nodes, edges |-> G_edges]) @@ files
    /\ pc' = IF pc = "graph_returned" THEN "write_stations" ELSE pc
    /\ UNCHANGED <<error, stations_gdf, row_i, records, seen, stations, lines,
                   origin, G_nodes, G_edges, tracks_gdf, todo, last, far>>

WriteGraph ==
    /\ pc = "graph_returned"
    /\ files' = (GraphFile :> [nodes |-> G_nodes, edges |-> G_edges]) @@ files
    /\ pc' = "write_stations"
    /\ UNCHANGED <<error, stations_gdf, row_i, records, seen, stations, lines,
                   origin, G_nodes, G_edges, tracks_gdf, todo, last, far>>

WriteStations ==
    /\ pc = "write_stations"
    /\ files' = (StationsFile :> stations) @@ files
    /\ pc' = "write_lines"
    /\ UNCHANGED <<error, stations_gdf, row_i, records, seen, stations, lines,
                   origin, G_nodes, G_edges, tracks_gdf, todo, last, far>>

WriteLines ==
    /\ pc = "write_lines"
    /\ files' = (LinesFile :> lines) @@ files
    /\ pc' = "done"
    /\ UNCHANGED <<error, stations_gdf, row_i, records, seen, stations, lines,
                   origin, G_nodes, G_edges, tracks_gdf, todo, last, far>>

Next ==
    \/ EnsureDir \/ Extract \/ ExtractFails
    \/ StationRow \/ StationTableReturn
    \/ MainBuildLines \/ LinesStart \/ PipelineRouteRow \/ LinesReturn
    \/ TrackIndex \/ TrackIndexFails
    \/ GraphStart \/ AddNode \/ MetroStart \/ MetroEdge
    \/ WalkStart \/ WalkPair \/ GraphReturn
    \/ WriteGraph \/ WriteStations \/ WriteLines

Spec == Init /\ [][Next]_vars

(***************************************************************************)
(* Properties                                                              *)
(***************************************************************************)
BuildReturned == pc \in {"graph_returned", "write_stations", "write_lines", "done"}

IsEdge(u, v, mode) ==
    /\ <<u, v>> \in DOMAIN G_edges
    /\ G_edges[<<u, v>>].mode = mode

IsMetroEdgeOf(u, v, lid) ==
    /\ IsEdge(u, v, "metro")
    /\ "line" \in DOMAIN G_edges[<<u, v>>]
    /\ G_edges[<<u, v>>].line = lid

StationIds == {stations[k].station_id : k \in 1..Len(stations)}

\* ---- C1 ----------------------------------------------------------------
\* C1: in the graph build_graph returns, every consecutive station pair (a, b)
\* of every line L has a metro edge a->b and a metro edge b->a tagged line = L.
C1_EveryLineKeepsItsEdges ==
    BuildReturned =>
        \A lid \in DOMAIN lines :
            \A k \in 1..(Len(lines[lid].stations) - 1) :
                LET a == lines[lid].stations[k]
                    b == lines[lid].stations[k + 1]
                IN  IsMetroEdgeOf(a, b, lid) /\ IsMetroEdgeOf(b, a, lid)

\* ---- C2 ----------------------------------------------------------------
\* C2: a pair within the prefilter whose anchors no path connects gets no
\* walking edge and never ends the build with an exception.
C2_UnreachablePairDoesNotAbort ==
    (/\ DOMAIN last # {}
     /\ ~beyond_prefilter(last.euclid_m)
     /\ ~last.routed.found)
    => /\ pc # "raised"
       /\ ~IsEdge(last.s1, last.s2, "walk")
       /\ ~IsEdge(last.s2, last.s1, "walk")

\* ---- C3 ----------------------------------------------------------------
\* C3: in the returned graph every walking edge has no line attribute and
\* every metro edge has one.
C3_LineTagOnlyOnMetro ==
    BuildReturned =>
        \A e \in DOMAIN G_edges :
            /\ G_edges[e].mode = "walk" => "line" \notin DOMAIN G_edges[e]
            /\ G_edges[e].mode = "metro" => "line" \in DOMAIN G_edges[e]

\* ---- C4 ----------------------------------------------------------------
\* C4: after every iteration of the edge loops and in the returned graph,
\* each edge a->b has a mirror edge b->a with the same mode, distance_m and
\* time_s.
C4_EveryEdgeHasItsMirror ==
    \A e \in DOMAIN G_edges :
        /\ <<e[2], e[1]>> \in DOMAIN G_edges
        /\ G_edges[<<e[2], e[1]>>].mode = G_edges[e].mode
        /\ G_edges[<<e[2], e[1]>>].distance_m = G_edges[e].distance_m
        /\ G_edges[<<e[2], e[1]>>].time_s = G_edges[e].time_s

\* Two lines run over the same two stations in opposite orders, for which the
\* track distance differs by direction, and a walking edge was then written
\* over the metro edge (it still has the line attribute).
C4_Witness ==
    /\ BuildReturned
    /\ DOMAIN lines = {"1", "2"}
    /\ lines["1"].stations = <<0, 1>>
    /\ lines["2"].stations = <<1, 0>>
    /\ metro_distance(station_by_id(stations, 0), station_by_id(stations, 1),
                      tracks_gdf)
       # metro_distance(station_by_id(stations, 1), station_by_id(stations, 0),
                        tracks_gdf)
    /\ IsEdge(0, 1, "walk")
    /\ "line" \in DOMAIN G_edges[<<0, 1>>]

\* ---- C5 ----------------------------------------------------------------
\* C5: the node set of the returned graph is the set of station_ids, and each
\* node's name, lat and lon are those of the Station with that station_id.
C5_NodesCarryStationFields ==
    BuildReturned =>
        /\ DOMAIN G_nodes = StationIds
        /\ \A k \in 1..Len(stations) :
              LET n == G_nodes[stations[k].station_id]
              IN  /\ n.name = stations[k].name
                  /\ n.lat = stations[k].lat
                  /\ n.lon = stations[k].lon

\* ---- C8 ----------------------------------------------------------------
\* The inequality d_walk * 3600/4800 < euclid_m * 3600/40000 + 30 + 120,
\* with both sides multiplied by 120000.
AdmissibleByRule(d_walk, euclid_m) ==
    d_walk * 3600 * 25 < euclid_m * 3600 * 3 + (30 + 120) * 120000

WalkAttrsAre(u, v, d_walk) ==
    /\ G_edges[<<u, v>>].distance_m = d_walk
    /\ G_edges[<<u, v>>].time_s * 4800 = d_walk * 3600 * 100

\* C8: for a pair within 1500 m with routed distance d_walk, the two walking
\* edges exist iff d_walk * 3600/4800 < euclid_m * 3600/40000 + 150, and they
\* carry distance_m = d_walk and time_s = d_walk * 3600/4800; euclid 500 with
\* d_walk 650 gives no edge, with d_walk 100 edges of 100 m and 75 s.
C8_WalkEdgesIffAdmissible ==
    (/\ DOMAIN last # {}
     /\ last.euclid_m <= 1500
     /\ last.routed.found)
    => LET d == last.routed.length
           e == last.euclid_m
       IN  /\ IsEdge(last.s1, last.s2, "walk") <=> AdmissibleByRule(d, e)
           /\ IsEdge(last.s2, last.s1, "walk") <=> AdmissibleByRule(d, e)
           /\ AdmissibleByRule(d, e) =>
                 /\ WalkAttrsAre(last.s1, last.s2, d)
                 /\ WalkAttrsAre(last.s2, last.s1, d)
           /\ (e = 500 /\ d = 650) => ~IsEdge(last.s1, last.s2, "walk")
           /\ (e = 500 /\ d = 100) =>
                 /\ IsEdge(last.s1, last.s2, "walk")
                 /\ G_edges[<<last.s1, last.s2>>].distance_m = 100
                 /\ G_edges[<<last.s1, last.s2>>].time_s = 75 * 100

\* The pair of the worked example has got its edges, over a metro edge of a
\* line, as the last pair of the walking loop.
C8_Witness ==
    /\ pc = "walk_loop"
    /\ todo = <<>>
    /\ DOMAIN last # {}
    /\ last.euclid_m = 500
    /\ last.routed = [found |-> TRUE, length |-> 100]
    /\ IsEdge(last.s1, last.s2, "walk")
    /\ "line" \in DOMAIN G_edges[<<last.s1, last.s2>>]

\* ---- C9 ----------------------------------------------------------------
\* C9: a pair whose straight-line distance exceeds 1500 m has no walking edge
\* in any state up to and including the returned graph, whatever its routed
\* distance; a pair at exactly 1500 m is decided by the admissibility rule.
C9_NoWalkEdgeBeyondPrefilter ==
    /\ \A p \in far : ~IsEdge(p[1], p[2], "walk") /\ ~IsEdge(p[2], p[1], "walk")
    /\ (DOMAIN last # {} /\ last.euclid_m > 1500) => <<last.s1, last.s2>> \in far
    /\ (/\ DOMAIN last # {}
        /\ last.euclid_m = 1500
        /\ last.routed.found
        /\ AdmissibleByRule(last.routed.length, 1500))
       => IsEdge(last.s1, last.s2, "walk") /\ IsEdge(last.s2, last.s1, "walk")

\* A pair at 1501 m whose routed distance of 100 m satisfies the rule was the
\* last pair of the walking loop.
C9_Witness ==
    /\ pc = "walk_loop"
    /\ todo = <<>>
    /\ DOMAIN last # {}
    /\ last.euclid_m = 1501
    /\ last.routed = [found |-> TRUE, length |-> 100]
    /\ AdmissibleByRule(100, 1501)
    /\ <<last.s1, last.s2>> \in far

\* ---- C10 ---------------------------------------------------------------
Outputs == DOMAIN files \cap {GraphFile, StationsFile, LinesFile}

\* C10: no output is written before acquisition, the track transformation
\* and build_graph have completed; a run that ends with an exception has
\* written none; and a written graph file holds the graph build_graph
\* returned, with every station's node and an edge in both directions for
\* every consecutive pair of every line.
C10_OutputsOnlyAfterFullBuild ==
    /\ Outputs # {} =>
          /\ pc \in {"write_stations", "write_lines", "done"}
          /\ error = ""
          /\ todo = <<>>
    /\ pc = "raised" => Outputs = {}
    /\ GraphFile \in DOMAIN files =>
          /\ files[GraphFile] = [nodes |-> G_nodes, edges |-> G_edges]
          /\ DOMAIN files[GraphFile].nodes = StationIds
          /\ \A lid \in DOMAIN lines :
                \A k \in 1..(Len(lines[lid].stations) - 1) :
                    LET a == lines[lid].stations[k]
                        b == lines[lid].stations[k + 1]
                    IN  {<<a, b>>, <<b, a>>} \subseteq DOMAIN files[GraphFile].edges
          /\ \A p \in DOMAIN files[GraphFile].edges :
                files[GraphFile].edges[p].mode \in {"metro", "walk"}

\* A run that wrote all three outputs of a graph with metro and walking edges.
C10_Witness ==
    /\ pc = "done"
    /\ Outputs = {GraphFile, StationsFile, LinesFile}
    /\ \E p \in DOMAIN G_edges : G_edges[p].mode = "walk"
    /\ \E p \in DOMAIN G_edges : G_edges[p].mode = "metro"

====
